---- MODULE Spec2Model ----
(***************************************************************************)
(* Authentication and transport gateway of the Headlesshost MCP server     *)
(* (src/src/index.ts): credential resolution, bearer-token verification    *)
(* with its cache, OAuth metadata discovery, start-up, and the three HTTP  *)
(* auth postures in front of mcpHandler.                                   *)
(*                                                                         *)
(* The strict posture is the middleware requireBearerAuth of               *)
(* @modelcontextprotocol/sdk (v1.26, see src/README.md line 5), imported   *)
(* at index.ts line 8 and instantiated at lines 2888-2906.  Its steps are  *)
(* modelled as that release performs them: header present, "Bearer TOKEN"  *)
(* format, verifier call, numeric and unexpired expiresAt, and the mapping *)
(* of a thrown error to a status (InvalidTokenError -> 401, any error that *)
(* is not an OAuthError -> 500).                                           *)
(***************************************************************************)
EXTENDS Integers, Sequences, FiniteSets, TLC

\* ------------------------------------------------------------------ bounds

\* Number of HTTP requests a run sends.
MaxReq == 2

\* Number of clock steps a run takes.
MaxTicks == 2

\* ------------------------------------------------------- program constants

\* const TOKEN_VERIFY_CACHE_TTL_MS = Number(env || "60000")
TOKEN_VERIFY_CACHE_TTL_MS == 60000

\* axios.get(`${API_BASE_URL}/tools/ping`, { ..., timeout: 15000, ... })
PROBE_TIMEOUT_MS == 15000

\* Date.now() is observed at the multiples of the cache TTL and one probe
\* timeout after each of them, so that two verifications can overlap with
\* different start times and a run can be strictly inside, exactly at and
\* beyond an entry's expiry.  ClockStep(t) is the step from instant t to the
\* next one and Ticks(t) the number of steps that lead to t.
ClockStep(t) ==
  IF t % TOKEN_VERIFY_CACHE_TTL_MS = 0
    THEN PROBE_TIMEOUT_MS
    ELSE TOKEN_VERIFY_CACHE_TTL_MS - PROBE_TIMEOUT_MS

Ticks(t) ==
  2 * (t \div TOKEN_VERIFY_CACHE_TTL_MS)
    + (IF t % TOKEN_VERIFY_CACHE_TTL_MS = 0 THEN 0 ELSE 1)

Requests == 1 .. MaxReq

Methods == {"GET", "POST", "DELETE"}

\* ---------------------------------------------------------------- values

\* An optional value is <<>> when undefined and <<v>> when it is v.
\* JavaScript truthiness of an optional string.
Truthy(x) == x # <<>> /\ x[1] # ""

\* The claims of a JWT payload that the code reads.  scope is the claim
\* already cut at single blanks ("a  b" is <<"a", "", "b">>).
NoClaims ==
  [scope |-> <<>>, client_id |-> <<>>, azp |-> <<>>, sub |-> <<>>,
   email |-> <<>>, exp |-> <<>>]

\* A token string: raw names the string, parts is the number of
\* dot-separated segments, payload says what the second segment decodes to
\* ("object": a JSON object with the given claims, "null": the JSON value
\* null, "garbage": not JSON).
EmptyString == [raw |-> "", parts |-> 1, payload |-> "garbage", claims |-> NoClaims]

\* {"scope":"read write","client_id":"app1","exp":45}: expires 45 s after
\* the epoch of the run, i.e. between the first and the second clock step.
TokApp1 ==
  [raw |-> "h.app1.s", parts |-> 3, payload |-> "object",
   claims |-> [NoClaims EXCEPT !.scope = <<<<"read", "write">>>>,
                               !.client_id = <<"app1">>,
                               !.exp = <<45>>]]

\* An opaque token that is not a JWT (no exp claim to be had).
TokOpaque ==
  [raw |-> "opaque", parts |-> 1, payload |-> "garbage", claims |-> NoClaims]

\* The legacy static key HEADLESSHOST_API_KEY, as a string.
LegacyKeyString ==
  [raw |-> "K", parts |-> 1, payload |-> "garbage", claims |-> NoClaims]

Tokens == {TokApp1, TokOpaque}

\* Further token strings, for the decoding of claims.  Three segments whose
\* second is not JSON (the claims written here are what a reader of the
\* token might expect; the code never gets to see them).
TokBadJson ==
  [raw |-> "h.notjson.s", parts |-> 3, payload |-> "garbage",
   claims |-> [NoClaims EXCEPT !.client_id = <<"ghost">>, !.exp = <<45>>]]

\* Three segments whose second decodes to the JSON value null.
TokNull ==
  [raw |-> "h.null.s", parts |-> 3, payload |-> "null", claims |-> NoClaims]

\* {"azp":"azp1","sub":"sub1"}
TokAzp ==
  [raw |-> "h.azp1.s", parts |-> 3, payload |-> "object",
   claims |-> [NoClaims EXCEPT !.azp = <<"azp1">>, !.sub = <<"sub1">>]]

\* {"client_id":"","azp":"","sub":"sub1","email":"e@x","scope":""}
TokEmptyClientId ==
  [raw |-> "h.sub1.s", parts |-> 3, payload |-> "object",
   claims |-> [NoClaims EXCEPT !.client_id = <<"">>, !.azp = <<"">>,
                               !.sub = <<"sub1">>, !.email = <<"e@x">>,
                               !.scope = <<<<"">>>>]]

\* {"email":"e@x","scope":"a  b "}, two segments only
TokEmail ==
  [raw |-> "h.email", parts |-> 2, payload |-> "object",
   claims |-> [NoClaims EXCEPT !.email = <<"e@x">>,
                               !.scope = <<<<"a", "", "b", "">>>>]]

\* {}
TokNoIdentity ==
  [raw |-> "h.empty.s", parts |-> 3, payload |-> "object", claims |-> NoClaims]

DecodeTokens ==
  {TokApp1, TokOpaque, TokBadJson, TokNull, TokAzp, TokEmptyClientId, TokEmail,
   TokNoIdentity}

\* Every string verifyBearerToken is called with.
TokenStrings == Tokens \cup DecodeTokens

\* An Authorization header: scheme and credentials, both empty when the
\* header is absent.
NoHeader == [scheme |-> "", cred |-> EmptyString]

\* The headers requests are sent with: none, and "Bearer <token>".
Headers ==
  {NoHeader} \cup {[scheme |-> "Bearer", cred |-> t] : t \in Tokens}

\* A JavaScript value that is undefined, a string or a number.
JsUndefined == [type |-> "undefined", str |-> EmptyString]
JsString(s) == [type |-> "string", str |-> s]
JsNumber == [type |-> "number", str |-> EmptyString]

\* ------------------------------------------------- 4.1 credential resolver

\* A per-call context as the tool layer receives it: ctx may be undefined,
\* ctx.authInfo may be missing, ctx.authInfo.token is any value.
Ctx(defined, hasAuthInfo, token) ==
  [defined |-> defined, hasAuthInfo |-> hasAuthInfo, token |-> token]

\* ctx?.authInfo?.token
AuthInfoToken(ctx) ==
  IF ctx.defined /\ ctx.hasAuthInfo THEN ctx.token ELSE JsUndefined

\* resolveAccessToken with the legacy key preferred to the caller's token.
resolveAccessToken_LegacyFirst(ctx, c) ==
  LET authInfoToken == AuthInfoToken(ctx) IN
  IF c.allowLegacy /\ c.legacyKey.type = "string" /\ c.legacyKey.str # EmptyString
    THEN c.legacyKey
  ELSE IF authInfoToken.type = "string" /\ authInfoToken.str # EmptyString
    THEN authInfoToken
  ELSE JsUndefined

\* resolveAccessToken(ctx), with the process-wide LEGACY_API_KEY and
\* ALLOW_LEGACY_API_KEY_FALLBACK of config c.
resolveAccessToken(ctx, c) ==
  LET authInfoToken == AuthInfoToken(ctx) IN
  IF authInfoToken.type = "string" /\ authInfoToken.str # EmptyString
    THEN authInfoToken
  ELSE IF c.allowLegacy /\ c.legacyKey.type = "string"
            /\ c.legacyKey.str # EmptyString
    THEN c.legacyKey
  ELSE JsUndefined

\* ------------------------------------------------- 4.3 bearer token verifier

\* parseJwtClaims(token): the decoded payload, {} when the token has fewer
\* than two segments or the payload is not JSON.  A payload that is the
\* JSON value null is returned as null.
parseJwtClaims(token) ==
  IF token.parts < 2 THEN [isNull |-> FALSE, claims |-> NoClaims]
  ELSE IF token.payload = "garbage" THEN [isNull |-> FALSE, claims |-> NoClaims]
  ELSE IF token.payload = "null" THEN [isNull |-> TRUE, claims |-> NoClaims]
  ELSE [isNull |-> FALSE, claims |-> token.claims]

\* seq.filter(Boolean) on a sequence of strings
RECURSIVE FilterNonEmpty(_)
FilterNonEmpty(seq) ==
  IF seq = <<>> THEN <<>>
  ELSE IF Head(seq) = "" THEN FilterNonEmpty(Tail(seq))
  ELSE <<Head(seq)>> \o FilterNonEmpty(Tail(seq))

\* typeof claims.scope === "string" ? claims.scope.split(" ").filter(Boolean) : []
ScopesOf(claims) ==
  IF claims.scope = <<>> THEN <<>> ELSE FilterNonEmpty(claims.scope[1])

\* ClientIdOf with sub looked at before azp.
ClientIdOf_SubFirst(claims) ==
  IF Truthy(claims.client_id) THEN claims.client_id[1]
  ELSE IF Truthy(claims.sub) THEN claims.sub[1]
  ELSE IF Truthy(claims.azp) THEN claims.azp[1]
  ELSE IF Truthy(claims.email) THEN claims.email[1]
  ELSE "unknown"

\* String(claims.client_id || claims.azp || claims.sub || claims.email || "unknown")
ClientIdOf(claims) ==
  IF Truthy(claims.client_id) THEN claims.client_id[1]
  ELSE IF Truthy(claims.azp) THEN claims.azp[1]
  ELSE IF Truthy(claims.sub) THEN claims.sub[1]
  ELSE IF Truthy(claims.email) THEN claims.email[1]
  ELSE "unknown"

\* typeof claims.exp === "number" ? claims.exp : undefined
ExpiresAtOf(claims) == claims.exp

\* const authInfo = { clientId, scopes, expiresAt }
AuthInfoOf(token) ==
  LET claims == parseJwtClaims(token).claims IN
  [clientId |-> ClientIdOf(claims), scopes |-> ScopesOf(claims),
   expiresAt |-> ExpiresAtOf(claims)]

NoAuthInfo == [clientId |-> "", scopes |-> <<>>, expiresAt |-> <<>>]

\* ---------------------------------------------- 4.2 token verification cache

NoEntry == [present |-> FALSE, expiresAt |-> 0, authInfo |-> NoAuthInfo]

\* CacheHit with the token's own expiry looked at as well.
CacheHit_TokenExpiry(cache, token, t) ==
  /\ cache[token].present /\ cache[token].expiresAt > t
  /\ \/ cache[token].authInfo.expiresAt = <<>>
     \/ cache[token].authInfo.expiresAt[1] * 1000 >= t

\* CacheHit with an entry still counted as fresh at the instant it expires.
CacheHit_Inclusive(cache, token, t) ==
  cache[token].present /\ cache[token].expiresAt >= t

\* CacheHit with every stored entry served, expired or not.
CacheHit_AnyEntry(cache, token, t) == cache[token].present

\* cached && cached.expiresAt > now
CacheHit(cache, token, t) ==
  cache[token].present /\ cache[token].expiresAt > t

\* CachePut with the cache expiry written over the token's own expiry in
\* the stored result.
CachePut_ExpiryMixedUp(cache, token, authInfo, started) ==
  [cache EXCEPT ![token] =
     [present |-> TRUE, expiresAt |-> started + TOKEN_VERIFY_CACHE_TTL_MS,
      authInfo |-> [authInfo EXCEPT
                      !.expiresAt = <<started + TOKEN_VERIFY_CACHE_TTL_MS>>]]]

\* CachePut with the entries that have expired swept on every write.
CachePut_Sweep(cache, token, authInfo, started) ==
  [t \in DOMAIN cache |->
     IF t = token
       THEN [present |-> TRUE, expiresAt |-> started + TOKEN_VERIFY_CACHE_TTL_MS,
             authInfo |-> authInfo]
     ELSE IF cache[t].present /\ cache[t].expiresAt <= started THEN NoEntry
     ELSE cache[t]]

\* CachePut with the scopes left out of the stored result.
CachePut_DropScopes(cache, token, authInfo, started) ==
  [cache EXCEPT ![token] =
     [present |-> TRUE, expiresAt |-> started + TOKEN_VERIFY_CACHE_TTL_MS,
      authInfo |-> [authInfo EXCEPT !.scopes = <<>>]]]

\* CachePut with the TTL left out of the stored expiry.
CachePut_NoTtl(cache, token, authInfo, started) ==
  [cache EXCEPT ![token] =
     [present |-> TRUE, expiresAt |-> started, authInfo |-> authInfo]]

\* tokenVerifyCache.set(token, { authInfo, expiresAt: now + TTL }), now being
\* the clock read when the call started.
\* CachePut with the TTL taken for seconds.
CachePut_TtlInSeconds(cache, token, authInfo, started) ==
  [cache EXCEPT ![token] =
     [present |-> TRUE,
      expiresAt |-> started + TOKEN_VERIFY_CACHE_TTL_MS \div 1000,
      authInfo |-> authInfo]]

CachePut(cache, token, authInfo, started) ==
  [cache EXCEPT ![token] =
     [present |-> TRUE, expiresAt |-> started + TOKEN_VERIFY_CACHE_TTL_MS,
      authInfo |-> authInfo]]

\* What the probe GET /tools/ping comes back with: a response with a status
\* (validateStatus accepts every status), or no response at all (network
\* error, 15 s timeout), which axios throws.
ProbeOutcomes ==
  {[kind |-> "response", status |-> 200],
   [kind |-> "response", status |-> 401],
   [kind |-> "error", status |-> 0]}

NoOutcome == [kind |-> "none", status |-> 0]

\* The probe lets verifyBearerToken go on: it answered, with status 200.
ProbeAccepted(outcome) == outcome.kind = "response" /\ outcome.status = 200

\* ------------------------------------------------ 4.4 OAuth metadata builder

\* A JSON value of the discovery document, or of the metadata built from it:
\* undefined (the field is absent), a string, an array of strings, a boolean.
\* A string value is the sequence of the pieces it is made of, "" being the
\* empty sequence, so that String() of an array can be written down.
JsonUndefined == [type |-> "undefined", str |-> <<>>, arr |-> <<>>, bool |-> FALSE]
JsonString(s) == [type |-> "string", str |-> s, arr |-> <<>>, bool |-> FALSE]
JsonArray(a) == [type |-> "array", str |-> <<>>, arr |-> a, bool |-> FALSE]
JsonBoolean(b) == [type |-> "boolean", str |-> <<>>, arr |-> <<>>, bool |-> b]

\* JavaScript truthiness of a JSON value (an array is truthy, also empty).
JsonTruthy(v) ==
  CASE v.type = "string" -> v.str # <<>>
    [] v.type = "array" -> TRUE
    [] v.type = "boolean" -> v.bool
    [] OTHER -> FALSE

\* Array.prototype.join(): the elements with "," between them.
RECURSIVE Join(_)
Join(a) ==
  IF a = <<>> THEN <<>>
  ELSE IF Len(a) = 1 THEN <<a[1]>>
  ELSE <<a[1], ",">> \o Join(Tail(a))

\* String(v)
StringOf(v) ==
  CASE v.type = "string" -> v
    [] v.type = "array" -> JsonString(Join(v.arr))
    [] v.type = "boolean" -> JsonString(IF v.bool THEN <<"true">> ELSE <<"false">>)
    [] OTHER -> JsonString(<<"undefined">>)

\* StringOrUndefined with the field converted whether it is there or not.
StringOrUndefined_Always(v) == StringOf(v)

\* oidc.f ? String(oidc.f) : undefined
StringOrUndefined(v) == IF JsonTruthy(v) THEN StringOf(v) ELSE JsonUndefined

\* Array.isArray(oidc.f) ? oidc.f : fallback
ArrayOr(v, fallback) == IF v.type = "array" THEN v ELSE fallback

\* Boolean(oidc.f)
ToBoolean(v) == JsonBoolean(JsonTruthy(v))

\* MCP_OIDC_SCOPES with MCP_OIDC_SCOPES unset in the environment.
MCP_OIDC_SCOPES == <<"kapiti.read", "kapiti.write", "kapiti.admin">>

\* The optional fields of the metadata, by the way buildOAuthMetadata
\* copies them.
OptionalStringFields ==
  {"registration_endpoint", "service_documentation", "revocation_endpoint",
   "introspection_endpoint"}

OptionalArrayFields ==
  {"response_modes_supported", "grant_types_supported",
   "token_endpoint_auth_methods_supported",
   "token_endpoint_auth_signing_alg_values_supported",
   "revocation_endpoint_auth_methods_supported",
   "revocation_endpoint_auth_signing_alg_values_supported",
   "introspection_endpoint_auth_methods_supported",
   "introspection_endpoint_auth_signing_alg_values_supported"}

DefaultedArrayFields ==
  {"scopes_supported", "response_types_supported",
   "code_challenge_methods_supported"}

BooleanFields == {"client_id_metadata_document_supported"}

OptionalFields ==
  OptionalStringFields \cup OptionalArrayFields \cup DefaultedArrayFields
    \cup BooleanFields

\* What the one GET {issuer}/.well-known/openid-configuration comes back
\* with: no response (fetch rejects), or a response with response.ok and a
\* JSON document.  A mandatory field of the document is undefined, "" or a
\* URL; an optional field is a JSON value.
NoDoc ==
  [issuer |-> <<>>, authorization_endpoint |-> <<>>, token_endpoint |-> <<>>,
   registration_endpoint |-> JsonUndefined,
   scopes_supported |-> JsonUndefined,
   response_types_supported |-> JsonUndefined,
   response_modes_supported |-> JsonUndefined,
   grant_types_supported |-> JsonUndefined,
   token_endpoint_auth_methods_supported |-> JsonUndefined,
   token_endpoint_auth_signing_alg_values_supported |-> JsonUndefined,
   service_documentation |-> JsonUndefined,
   revocation_endpoint |-> JsonUndefined,
   revocation_endpoint_auth_methods_supported |-> JsonUndefined,
   revocation_endpoint_auth_signing_alg_values_supported |-> JsonUndefined,
   introspection_endpoint |-> JsonUndefined,
   introspection_endpoint_auth_methods_supported |-> JsonUndefined,
   introspection_endpoint_auth_signing_alg_values_supported |-> JsonUndefined,
   code_challenge_methods_supported |-> JsonUndefined,
   client_id_metadata_document_supported |-> JsonUndefined]

\* The documents that carry no optional field.
Docs ==
  {[NoDoc EXCEPT !.issuer = i, !.authorization_endpoint = a,
                 !.token_endpoint = t] :
     i \in {<<>>, <<"">>, <<"https://idp.example/oauth">>,
            <<"http://idp.example/oauth">>},
     a \in {<<>>, <<"">>, <<"https://idp.example/authorize">>},
     t \in {<<>>, <<"">>, <<"https://idp.example/token">>}}

DiscoveryResponses ==
  {[kind |-> "error", ok |-> FALSE, doc |-> NoDoc],
   [kind |-> "response", ok |-> FALSE, doc |-> NoDoc]}
    \cup {[kind |-> "response", ok |-> TRUE, doc |-> d] : d \in Docs}

NoResponse == [kind |-> "none", ok |-> FALSE, doc |-> NoDoc]

\* MissingRequired with the token endpoint not looked at.
MissingRequired_NoTokenEndpoint(oidc) ==
  \/ ~Truthy(oidc.issuer)
  \/ ~Truthy(oidc.authorization_endpoint)

\* !oidc.issuer || !oidc.authorization_endpoint || !oidc.token_endpoint
MissingRequired(oidc) ==
  \/ ~Truthy(oidc.issuer)
  \/ ~Truthy(oidc.authorization_endpoint)
  \/ ~Truthy(oidc.token_endpoint)

\* The object literal buildOAuthMetadata returns for document oidc.
MetadataOf(oidc) ==
  [issuer |-> oidc.issuer,
   authorization_endpoint |-> oidc.authorization_endpoint,
   token_endpoint |-> oidc.token_endpoint,
   registration_endpoint |-> StringOrUndefined(oidc.registration_endpoint),
   scopes_supported |-> ArrayOr(oidc.scopes_supported, JsonArray(MCP_OIDC_SCOPES)),
   response_types_supported |->
     ArrayOr(oidc.response_types_supported, JsonArray(<<"code">>)),
   response_modes_supported |->
     ArrayOr(oidc.response_modes_supported, JsonUndefined),
   grant_types_supported |-> ArrayOr(oidc.grant_types_supported, JsonUndefined),
   token_endpoint_auth_methods_supported |->
     ArrayOr(oidc.token_endpoint_auth_methods_supported, JsonUndefined),
   token_endpoint_auth_signing_alg_values_supported |->
     ArrayOr(oidc.token_endpoint_auth_signing_alg_values_supported, JsonUndefined),
   service_documentation |-> StringOrUndefined(oidc.service_documentation),
   revocation_endpoint |-> StringOrUndefined(oidc.revocation_endpoint),
   revocation_endpoint_auth_methods_supported |->
     ArrayOr(oidc.revocation_endpoint_auth_methods_supported, JsonUndefined),
   revocation_endpoint_auth_signing_alg_values_supported |->
     ArrayOr(oidc.revocation_endpoint_auth_signing_alg_values_supported,
             JsonUndefined),
   introspection_endpoint |-> StringOrUndefined(oidc.introspection_endpoint),
   introspection_endpoint_auth_methods_supported |->
     ArrayOr(oidc.introspection_endpoint_auth_methods_supported, JsonUndefined),
   introspection_endpoint_auth_signing_alg_values_supported |->
     ArrayOr(oidc.introspection_endpoint_auth_signing_alg_values_supported,
             JsonUndefined),
   code_challenge_methods_supported |->
     ArrayOr(oidc.code_challenge_methods_supported, JsonArray(<<"S256">>)),
   client_id_metadata_document_supported |->
     ToBoolean(oidc.client_id_metadata_document_supported)]

\* buildOAuthMetadata() from the fetch onwards: "error" when it throws,
\* "metadata" with the object it returns.
buildOAuthMetadata(resp) ==
  IF resp.kind # "response" THEN [kind |-> "error", md |-> NoDoc]
  ELSE IF ~resp.ok THEN [kind |-> "error", md |-> NoDoc]
  ELSE IF MissingRequired(resp.doc) THEN [kind |-> "error", md |-> NoDoc]
  ELSE [kind |-> "metadata", md |-> MetadataOf(resp.doc)]

NoMetadata == [kind |-> "none", md |-> NoDoc]

\* ------------------------------------------------------------ configuration

\* The environment, read once: MCP_TRANSPORT, MCP_AUTH_MODE (lower-cased; any
\* string), MCP_OIDC_ISSUER_URL (undefined or non-empty), HEADLESSHOST_API_KEY
\* (undefined, or trimmed and possibly ""), ALLOW_LEGACY_API_KEY_FALLBACK.
AuthModes == {"none", "oauth", "mixed", "strict"}

LegacyKeys == {JsUndefined, JsString(EmptyString), JsString(LegacyKeyString)}

Configs ==
  [transport : {"stdio", "http"},
   authMode : AuthModes,
   issuer : {<<>>, <<"https://idp.example/oauth">>},
   legacyKey : LegacyKeys,
   allowLegacy : BOOLEAN]

\* -------------------------------------------------------------------- state

VARIABLES
  cfg,               \* the configuration read at start-up
  phase,             \* where main() is: "start", "discovering", "binding",
                     \* "listening", "stdio", "exited"
  discovery,         \* the discovery response buildOAuthMetadata received
  discoveryGets,     \* GETs issued to the issuer's discovery document
  oauthMetadata,     \* const oauthMetadata of startHttpMode
  wellKnown,         \* the metadata router and the well-known aliases are registered
  routes,            \* per method, the middleware registered in front of mcpHandler
  now,               \* Date.now()
  tokenVerifyCache,  \* the module-level Map
  req,               \* the HTTP requests to /mcp, with what happened to each
  resolveCall,       \* a call of resolveAccessToken: its ctx and its result
  idp,               \* what the issuer answers a discovery GET with at present
  served             \* the latest answer of a well-known alias endpoint

vars ==
  <<cfg, phase, discovery, discoveryGets, oauthMetadata, wellKnown, routes,
    now, tokenVerifyCache, req, resolveCall, idp, served>>

\* req.auth: unset, or the object the middleware stored.
NoAuth ==
  [set |-> FALSE, token |-> EmptyString, clientId |-> "", scopes |-> <<>>,
   expiresAt |-> <<>>, extra |-> FALSE]

\* A request nobody has sent yet.
Idle ==
  [pc |-> "idle", header |-> NoHeader, mw |-> "",
   token |-> EmptyString, vCalled |-> FALSE, vStart |-> 0, vProbed |-> FALSE,
   probes |-> 0,
   vResult |-> "none", vInfo |-> NoAuthInfo, outcome |-> NoOutcome,
   staleInFlight |-> FALSE, disconnected |-> FALSE,
   auth |-> NoAuth, handled |-> FALSE, thrown |-> FALSE, headersSent |-> FALSE,
   status |-> 0, error |-> "",
   outbound |-> <<>>]

NoCall == [ctx |-> Ctx(FALSE, FALSE, JsUndefined), done |-> FALSE, result |-> JsUndefined]

NoRoutes == [m \in Methods |-> ""]

\* No well-known endpoint has been asked yet.
NoServed == [path |-> "", status |-> 0, body |-> <<>>]

EmptyCache == [t \in TokenStrings |-> NoEntry]

\* The legacy-key settings the gateway runs are started with: the key set,
\* or unset, with the fallback flag at its default (the credential resolver
\* is checked on every setting under SpecResolve).
GatewayConfigs ==
  {c \in Configs :
     /\ c.allowLegacy
     /\ c.legacyKey \in {JsString(LegacyKeyString), JsUndefined}}

Init ==
  /\ cfg \in GatewayConfigs
  /\ phase = "start"
  /\ discovery = NoResponse
  /\ discoveryGets = 0
  /\ oauthMetadata = NoMetadata
  /\ wellKnown = FALSE
  /\ routes = NoRoutes
  /\ now = 0
  /\ tokenVerifyCache = EmptyCache
  /\ req = [r \in Requests |-> Idle]
  /\ resolveCall = NoCall
  /\ idp = NoResponse
  /\ served = NoServed

\* ----------------------------------------------------------------- start-up

\* MiddlewareFor with the DELETE route registered without its middleware.
MiddlewareFor_DeleteOpen(mode, method) ==
  IF method = "DELETE" THEN "open"
  ELSE IF mode = "oauth" THEN "authMiddleware"
  ELSE IF mode = "mixed" THEN "mixedAuthMiddleware"
  ELSE "open"

\* MiddlewareFor with the mixed posture wired to the strict middleware.
MiddlewareFor_MixedStrict(mode, method) ==
  IF mode = "oauth" \/ mode = "mixed" THEN "authMiddleware" ELSE "open"

\* MiddlewareFor with the mixed middleware as the fallback of the chain.
MiddlewareFor_MixedByDefault(mode, method) ==
  IF mode = "oauth" THEN "authMiddleware" ELSE "mixedAuthMiddleware"

\* if (authMiddleware) ... else if (MCP_AUTH_MODE === "mixed") ... else ...:
\* the middleware app.post/get/delete("/mcp", ...) puts in front of mcpHandler.
MiddlewareFor(mode, method) ==
  IF mode = "oauth" THEN "authMiddleware"
  ELSE IF mode = "mixed" THEN "mixedAuthMiddleware"
  ELSE "open"

RegisterRoutes(mode) == [m \in Methods |-> MiddlewareFor(mode, m)]

\* main(): stdio unless MCP_TRANSPORT is http; startHttpMode up to the
\* discovery fetch (auth mode other than none) or up to app.listen.
Main ==
  /\ phase = "start"
  /\ IF cfg.transport # "http"
       THEN /\ phase' = "stdio"
            /\ UNCHANGED <<discoveryGets, routes>>
     ELSE IF cfg.authMode # "none"
       THEN IF cfg.issuer = <<>>
              THEN /\ phase' = "exited"
                   /\ UNCHANGED <<discoveryGets, routes>>
              ELSE /\ phase' = "discovering"
                   /\ discoveryGets' = discoveryGets + 1
                   /\ UNCHANGED routes
     ELSE /\ phase' = "binding"
          /\ routes' = RegisterRoutes(cfg.authMode)
          /\ UNCHANGED discoveryGets
  /\ UNCHANGED <<idp, served>>
  /\ UNCHANGED <<cfg, discovery, oauthMetadata, wellKnown, now,
                 tokenVerifyCache, req, resolveCall>>

\* mcpAuthMetadataRouter({oauthMetadata, ...}) begins with
\* checkIssuerUrl(new URL(oauthMetadata.issuer)), which throws unless the
\* issuer is an https URL (or a localhost one) without query and fragment.
checkIssuerUrl(issuer) == issuer = <<"https://idp.example/oauth">>

\* DiscoveryDone with a failed discovery degrading to a server without
\* metadata instead of ending the process.
DiscoveryDone_Degrade(resp) ==
  /\ phase = "discovering"
  /\ discovery' = resp
  /\ LET built == buildOAuthMetadata(resp) IN
       IF built.kind = "metadata" /\ checkIssuerUrl(built.md.issuer)
         THEN /\ oauthMetadata' = built
              /\ wellKnown' = TRUE
         ELSE UNCHANGED <<oauthMetadata, wellKnown>>
  /\ routes' = RegisterRoutes(cfg.authMode)
  /\ phase' = "binding"
  /\ UNCHANGED <<idp, served>>
  /\ UNCHANGED <<cfg, discoveryGets, now, tokenVerifyCache, req, resolveCall>>

\* The discovery fetch settles: buildOAuthMetadata throws, or it returns the
\* metadata and the metadata router refuses its issuer (main().catch exits
\* with 1 in both cases); or the metadata routes and then the /mcp routes are
\* registered, and app.listen is called.
DiscoveryDone(resp) ==
  /\ phase = "discovering"
  /\ discovery' = resp
  /\ LET built == buildOAuthMetadata(resp) IN
       IF built.kind = "metadata"
         THEN /\ oauthMetadata' = built
              /\ IF checkIssuerUrl(built.md.issuer)
                   THEN /\ wellKnown' = TRUE
                        /\ routes' = RegisterRoutes(cfg.authMode)
                        /\ phase' = "binding"
                   ELSE /\ phase' = "exited"
                        /\ UNCHANGED <<wellKnown, routes>>
         ELSE /\ phase' = "exited"
              /\ UNCHANGED <<oauthMetadata, wellKnown, routes>>
  /\ UNCHANGED <<idp, served>>
  /\ UNCHANGED <<cfg, discoveryGets, now, tokenVerifyCache, req, resolveCall>>

\* app.listen calls back: without an error the server is up, with one the
\* promise rejects and main().catch exits with 1.
Listen(ok) ==
  /\ phase = "binding"
  /\ phase' = IF ok THEN "listening" ELSE "exited"
  /\ UNCHANGED <<idp, served>>
  /\ UNCHANGED <<cfg, discovery, discoveryGets, oauthMetadata, wellKnown,
                 routes, now, tokenVerifyCache, req, resolveCall>>

\* Time passes.  The clock is read by requests only and is counted from the
\* moment the server listens.  A probe settles within PROBE_TIMEOUT_MS of
\* being sent (axios rejects at the timeout), so the clock does not pass that
\* point while the probe is still in flight.
Tick ==
  /\ phase = "listening"
  /\ Ticks(now) < MaxTicks
  /\ \A r \in Requests :
       req[r].pc = "verifying" =>
         now + ClockStep(now) - req[r].vStart <= PROBE_TIMEOUT_MS
  /\ now' = now + ClockStep(now)
  /\ UNCHANGED <<idp, served>>
  /\ UNCHANGED <<cfg, phase, discovery, discoveryGets, oauthMetadata,
                 wellKnown, routes, tokenVerifyCache, req, resolveCall>>

\* ------------------------------------------------------- the auth middleware

\* type.toLowerCase()
ToLower(scheme) == IF scheme = "Bearer" THEN "bearer" ELSE scheme

\* !authHeader
HeaderPresent(h) == h.scheme # ""

\* requireBearerAuth: const [type, token] = authHeader.split(" ");
\* type.toLowerCase() !== "bearer" || !token  is a format error.
BearerFormatOk(h) == ToLower(h.scheme) = "bearer" /\ h.cred # EmptyString

\* mixedAuthMiddleware: authHeader.replace(/^Bearer\s+/i, "").trim(); a header
\* that is the scheme alone has no blank after it and stays as it is.
MixedToken(h) ==
  IF ToLower(h.scheme) = "bearer" /\ h.cred # EmptyString
    THEN h.cred
    ELSE [raw |-> h.scheme, parts |-> 1, payload |-> "garbage", claims |-> NoClaims]

\* next(): mcpHandler is invoked with req.auth as the middleware left it.
Admit(rec, auth) == [rec EXCEPT !.pc = "handling", !.handled = TRUE, !.auth = auth]

\* res.status(status).json({ error, ... }): the request ends here.
Reject(rec, status, error) ==
  [rec EXCEPT !.pc = "done", !.status = status, !.error = error]

\* MixedAfterVerify with the catch branch going on anonymously.
MixedAfterVerify_Downgrade(rec, ok, info) ==
  IF ok
    THEN Admit(rec, [set |-> TRUE, token |-> rec.token, clientId |-> info.clientId,
                     scopes |-> info.scopes, expiresAt |-> info.expiresAt,
                     extra |-> FALSE])
    ELSE Admit(rec, [set |-> FALSE, token |-> EmptyString, clientId |-> "",
                     scopes |-> <<>>, expiresAt |-> <<>>, extra |-> FALSE])

\* MixedAfterVerify with next() also called after the 401 of the catch
\* branch.
MixedAfterVerify_RejectAndNext(rec, ok, info) ==
  IF ok
    THEN Admit(rec, [set |-> TRUE, token |-> rec.token, clientId |-> info.clientId,
                     scopes |-> info.scopes, expiresAt |-> info.expiresAt,
                     extra |-> FALSE])
    ELSE Admit(Reject(rec, 401, "invalid_token"), NoAuth)

\* mixedAuthMiddleware once verifyBearerToken has returned info or thrown.
MixedAfterVerify(rec, ok, info) ==
  IF ok
    THEN Admit(rec, [set |-> TRUE, token |-> rec.token, clientId |-> info.clientId,
                     scopes |-> info.scopes, expiresAt |-> info.expiresAt,
                     extra |-> FALSE])
    ELSE Reject(rec, 401, "invalid_token")

\* requireBearerAuth: the token is set to expire and has not expired:
\* typeof expiresAt === "number" and not expiresAt < Date.now() / 1000.
BearerExpiryOk(info, t) ==
  /\ info.expiresAt # <<>>
  /\ ~(info.expiresAt[1] * 1000 < t)

\* BearerAfterVerify with verifyAccessToken returning info without the token.
BearerAfterVerify_NoToken(rec, ok, info, t) ==
  IF ~ok THEN Reject(rec, 500, "server_error")
  ELSE IF ~BearerExpiryOk(info, t) THEN Reject(rec, 401, "invalid_token")
  ELSE Admit(rec, [set |-> TRUE, token |-> EmptyString, clientId |-> info.clientId,
                   scopes |-> info.scopes, expiresAt |-> info.expiresAt,
                   extra |-> TRUE])

\* requireBearerAuth once verifyAccessToken has returned or thrown.  What
\* verifyBearerToken throws is a plain Error (or an AxiosError), which the
\* middleware answers as a server error; its own InvalidTokenError is a 401.
BearerAfterVerify(rec, ok, info, t) ==
  IF ~ok THEN Reject(rec, 500, "server_error")
  ELSE IF ~BearerExpiryOk(info, t) THEN Reject(rec, 401, "invalid_token")
  ELSE Admit(rec, [set |-> TRUE, token |-> rec.token, clientId |-> info.clientId,
                   scopes |-> info.scopes, expiresAt |-> info.expiresAt,
                   extra |-> TRUE])

AfterVerify(rec, ok, info, t) ==
  IF rec.mw = "authMiddleware"
    THEN BearerAfterVerify(rec, ok, info, t)
    ELSE MixedAfterVerify(rec, ok, info)

\* BeginVerify with a token whose exp claim has passed rejected on the spot,
\* without a probe.
BeginVerify_LocalExpiry(rec, cache, t) ==
  LET v == [rec EXCEPT !.vCalled = TRUE, !.vStart = t]
      exp == parseJwtClaims(rec.token).claims.exp
  IN
  IF CacheHit(cache, rec.token, t)
    THEN AfterVerify([v EXCEPT !.vResult = "hit",
                               !.vInfo = cache[rec.token].authInfo],
                     TRUE, cache[rec.token].authInfo, t)
  ELSE IF parseJwtClaims(rec.token).isNull \/ (exp # <<>> /\ exp[1] * 1000 < t)
    THEN AfterVerify([v EXCEPT !.vResult = "fail"], FALSE, NoAuthInfo, t)
  ELSE [v EXCEPT !.pc = "verifying", !.vProbed = TRUE, !.probes = 1]

\* verifyBearerToken(token) up to its await: the clock is read, a fresh cache
\* entry is returned at once; otherwise the claims are decoded (a null
\* payload makes claims.scope throw) and the probe is sent.
BeginVerify(rec, cache, t) ==
  LET v == [rec EXCEPT !.vCalled = TRUE, !.vStart = t] IN
  IF CacheHit(cache, rec.token, t)
    THEN AfterVerify([v EXCEPT !.vResult = "hit",
                               !.vInfo = cache[rec.token].authInfo],
                     TRUE, cache[rec.token].authInfo, t)
  ELSE IF parseJwtClaims(rec.token).isNull
    THEN AfterVerify([v EXCEPT !.vResult = "fail"], FALSE, NoAuthInfo, t)
  ELSE [v EXCEPT !.pc = "verifying", !.vProbed = TRUE, !.probes = 1]

\* Dispatch with a route without middleware taking the Authorization header
\* for the auth context, unverified.
Dispatch_OpenTrustsHeader(rec, cache, t) ==
  IF rec.mw = "authMiddleware"
    THEN IF ~HeaderPresent(rec.header) THEN Reject(rec, 401, "invalid_token")
         ELSE IF ~BearerFormatOk(rec.header) THEN Reject(rec, 401, "invalid_token")
         ELSE BeginVerify([rec EXCEPT !.token = rec.header.cred], cache, t)
  ELSE IF rec.mw = "mixedAuthMiddleware"
    THEN IF ~HeaderPresent(rec.header) THEN Admit(rec, NoAuth)
         ELSE BeginVerify([rec EXCEPT !.token = MixedToken(rec.header)], cache, t)
  ELSE IF HeaderPresent(rec.header)
    THEN Admit(rec, [NoAuth EXCEPT !.set = TRUE, !.token = MixedToken(rec.header)])
  ELSE Admit(rec, NoAuth)

\* The middleware chain of the route, up to its first await.
Dispatch(rec, cache, t) ==
  IF rec.mw = "authMiddleware"
    THEN IF ~HeaderPresent(rec.header) THEN Reject(rec, 401, "invalid_token")
         ELSE IF ~BearerFormatOk(rec.header) THEN Reject(rec, 401, "invalid_token")
         ELSE BeginVerify([rec EXCEPT !.token = rec.header.cred], cache, t)
  ELSE IF rec.mw = "mixedAuthMiddleware"
    THEN IF ~HeaderPresent(rec.header) THEN Admit(rec, NoAuth)
         ELSE BeginVerify([rec EXCEPT !.token = MixedToken(rec.header)], cache, t)
  ELSE Admit(rec, NoAuth)

\* A client sends method m to /mcp with Authorization header h: the request
\* goes through the middleware registered for m.  Requests are numbered in
\* the order they arrive.
Request(r, m, h) ==
  /\ phase = "listening"
  /\ req[r].pc = "idle"
  /\ \A q \in Requests : q < r => req[q].pc # "idle"
  /\ req' = [req EXCEPT ![r] =
       Dispatch([Idle EXCEPT !.header = h, !.mw = routes[m]],
                tokenVerifyCache, now)]
  /\ UNCHANGED <<idp, served>>
  /\ UNCHANGED <<cfg, phase, discovery, discoveryGets, oauthMetadata,
                 wellKnown, routes, now, tokenVerifyCache, resolveCall>>

\* Another verification of the same token that started earlier is still
\* waiting for its probe (recorded with a request when it stores its result).
OlderInFlight(r) ==
  \E q \in Requests \ {r} :
    /\ req[q].pc = "verifying"
    /\ req[q].token = req[r].token
    /\ req[q].vStart < req[r].vStart

\* The client of request r goes away while the request's token is being
\* verified.  Neither middleware listens for the close of the connection and
\* the probe is sent without an abort signal, so nothing else changes.
ClientDisconnect(r) ==
  /\ req[r].pc = "verifying"
  /\ ~req[r].disconnected
  /\ req' = [req EXCEPT ![r].disconnected = TRUE]
  /\ UNCHANGED <<idp, served>>
  /\ UNCHANGED <<cfg, phase, discovery, discoveryGets, oauthMetadata,
                 wellKnown, routes, now, tokenVerifyCache, resolveCall>>

\* ProbeDone with the probe of a request whose client has gone away aborted:
\* verifyBearerToken throws and stores nothing.
ProbeDone_AbortOnClose(r, o) ==
  /\ req[r].pc = "verifying"
  /\ LET rec == [req[r] EXCEPT !.outcome = o]
         info == AuthInfoOf(rec.token)
     IN IF ProbeAccepted(o) /\ ~req[r].disconnected
          THEN /\ tokenVerifyCache' =
                    CachePut(tokenVerifyCache, rec.token, info, rec.vStart)
               /\ req' = [req EXCEPT ![r] =
                    AfterVerify([rec EXCEPT !.vResult = "ok", !.vInfo = info,
                                            !.staleInFlight = OlderInFlight(r)],
                                TRUE, info, now)]
          ELSE /\ UNCHANGED tokenVerifyCache
               /\ req' = [req EXCEPT ![r] =
                    AfterVerify([rec EXCEPT !.vResult = "fail"], FALSE, NoAuthInfo, now)]
  /\ UNCHANGED <<idp, served>>
  /\ UNCHANGED <<cfg, phase, discovery, discoveryGets, oauthMetadata,
                 wellKnown, routes, now, resolveCall>>

\* ProbeDone with a failed verification remembered: the entry of the token
\* is dropped.
ProbeDone_ForgetOnFailure(r, o) ==
  /\ req[r].pc = "verifying"
  /\ LET rec == [req[r] EXCEPT !.outcome = o]
         info == AuthInfoOf(rec.token)
     IN IF ProbeAccepted(o)
          THEN /\ tokenVerifyCache' =
                    CachePut(tokenVerifyCache, rec.token, info, rec.vStart)
               /\ req' = [req EXCEPT ![r] =
                    AfterVerify([rec EXCEPT !.vResult = "ok", !.vInfo = info,
                                            !.staleInFlight = OlderInFlight(r)],
                                TRUE, info, now)]
          ELSE /\ tokenVerifyCache' =
                    [tokenVerifyCache EXCEPT ![rec.token] = NoEntry]
               /\ req' = [req EXCEPT ![r] =
                    AfterVerify([rec EXCEPT !.vResult = "fail"], FALSE, NoAuthInfo, now)]
  /\ UNCHANGED <<idp, served>>
  /\ UNCHANGED <<cfg, phase, discovery, discoveryGets, oauthMetadata,
                 wellKnown, routes, now, resolveCall>>

\* The probe of request r settles with outcome o: verifyBearerToken throws,
\* or stores the result under the clock value it started with and returns
\* it; the middleware goes on.
ProbeDone(r, o) ==
  /\ req[r].pc = "verifying"
  /\ LET rec == [req[r] EXCEPT !.outcome = o]
         info == AuthInfoOf(rec.token)
     IN IF ProbeAccepted(o)
          THEN /\ tokenVerifyCache' =
                    CachePut(tokenVerifyCache, rec.token, info, rec.vStart)
               /\ req' = [req EXCEPT ![r] =
                    AfterVerify([rec EXCEPT !.vResult = "ok", !.vInfo = info,
                                            !.staleInFlight = OlderInFlight(r)],
                                TRUE, info, now)]
          ELSE /\ UNCHANGED tokenVerifyCache
               /\ req' = [req EXCEPT ![r] =
                    AfterVerify([rec EXCEPT !.vResult = "fail"], FALSE, NoAuthInfo, now)]
  /\ UNCHANGED <<idp, served>>
  /\ UNCHANGED <<cfg, phase, discovery, discoveryGets, oauthMetadata,
                 wellKnown, routes, now, resolveCall>>

\* The tool layer's ctx for a request: ctx.authInfo is req.auth.
CtxOfAuth(auth) ==
  Ctx(TRUE, auth.set, IF auth.set THEN JsString(auth.token) ELSE JsUndefined)

\* HandlerDone with the exception of the protocol handler not caught: it
\* ends the process.
HandlerDone_Uncaught(r, thrown, headersSent) ==
  /\ req[r].pc = "handling"
  /\ ~thrown => headersSent
  /\ req' = [req EXCEPT ![r] =
       IF thrown
         THEN [req[r] EXCEPT !.pc = "done", !.thrown = TRUE,
                             !.headersSent = headersSent]
         ELSE [req[r] EXCEPT !.pc = "done", !.status = 200, !.headersSent = TRUE,
                             !.outbound =
                               <<resolveAccessToken(CtxOfAuth(req[r].auth), cfg)>>]]
  /\ phase' = IF thrown THEN "exited" ELSE phase
  /\ UNCHANGED <<idp, served>>
  /\ UNCHANGED <<cfg, discovery, discoveryGets, oauthMetadata,
                 wellKnown, routes, now, tokenVerifyCache, resolveCall>>

\* mcpHandler: transport.handleRequest serves the request (status 200 stands
\* for whatever it answers), a tool building its client with
\* getApiClient(ctx); or it throws, before or after the response headers
\* went out: the exception is caught, and answered with 500
\* {error: "Internal server error"} if (!res.headersSent).
\* HandlerDone with the auth context kept in one place for all requests: a
\* tool call resolves its credential from the context of the request that
\* was admitted last.
HandlerDone_SharedAuth(r, thrown, headersSent) ==
  /\ req[r].pc = "handling"
  /\ ~thrown => headersSent
  /\ LET last == CHOOSE q \in Requests :
                   /\ req[q].handled
                   /\ \A p \in Requests : req[p].handled => p <= q
     IN req' = [req EXCEPT ![r] =
       IF thrown
         THEN IF headersSent
                THEN [req[r] EXCEPT !.pc = "done", !.thrown = TRUE,
                                    !.headersSent = TRUE, !.status = 200]
                ELSE [req[r] EXCEPT !.pc = "done", !.thrown = TRUE,
                                    !.status = 500,
                                    !.error = "Internal server error"]
         ELSE [req[r] EXCEPT !.pc = "done", !.status = 200, !.headersSent = TRUE,
                             !.outbound =
                               <<resolveAccessToken(CtxOfAuth(req[last].auth), cfg)>>]]
  /\ UNCHANGED <<idp, served>>
  /\ UNCHANGED <<cfg, phase, discovery, discoveryGets, oauthMetadata,
                 wellKnown, routes, now, tokenVerifyCache, resolveCall>>

HandlerDone(r, thrown, headersSent) ==
  /\ req[r].pc = "handling"
  /\ ~thrown => headersSent
  /\ req' = [req EXCEPT ![r] =
       IF thrown
         THEN IF headersSent
                THEN [req[r] EXCEPT !.pc = "done", !.thrown = TRUE,
                                    !.headersSent = TRUE, !.status = 200]
                ELSE [req[r] EXCEPT !.pc = "done", !.thrown = TRUE,
                                    !.status = 500,
                                    !.error = "Internal server error"]
         ELSE [req[r] EXCEPT !.pc = "done", !.status = 200, !.headersSent = TRUE,
                             !.outbound =
                               <<resolveAccessToken(CtxOfAuth(req[r].auth), cfg)>>]]
  /\ UNCHANGED <<idp, served>>
  /\ UNCHANGED <<cfg, phase, discovery, discoveryGets, oauthMetadata,
                 wellKnown, routes, now, tokenVerifyCache, resolveCall>>

Next ==
  \/ Main
  \/ \E resp \in DiscoveryResponses : DiscoveryDone(resp)
  \/ \E ok \in BOOLEAN : Listen(ok)
  \/ Tick
  \/ \E r \in Requests, m \in Methods, h \in Headers : Request(r, m, h)
  \/ \E r \in Requests, o \in ProbeOutcomes : ProbeDone(r, o)
  \/ \E r \in Requests, thrown, headersSent \in BOOLEAN :
       HandlerDone(r, thrown, headersSent)

Spec == Init /\ [][Next]_vars

\* ------------------------------------------- the credential resolver, alone

\* The values ctx.authInfo.token is tried with: undefined, a number, "", the
\* tokens, and a string equal to the legacy key.
TokenValues ==
  {JsUndefined, JsNumber, JsString(EmptyString)}
    \cup {JsString(t) : t \in Tokens \cup {LegacyKeyString}}

Ctxs ==
  {Ctx(FALSE, FALSE, JsUndefined), Ctx(TRUE, FALSE, JsUndefined)}
    \cup {Ctx(TRUE, TRUE, v) : v \in TokenValues}

\* A process with any setting of the legacy key and of the fallback flag, a
\* cache that is empty or holds an entry, and a tool about to call
\* resolveAccessToken with some ctx.
InitResolve ==
  /\ cfg \in {c \in Configs : c.transport = "stdio" /\ c.authMode = "none"
                                 /\ c.issuer = <<>>}
  /\ phase = "stdio"
  /\ discovery = NoResponse
  /\ discoveryGets = 0
  /\ oauthMetadata = NoMetadata
  /\ wellKnown = FALSE
  /\ routes = NoRoutes
  /\ now = 0
  /\ tokenVerifyCache \in
       {EmptyCache, CachePut(EmptyCache, TokApp1, AuthInfoOf(TokApp1), 0)}
  /\ req = [r \in Requests |-> Idle]
  /\ resolveCall \in {[NoCall EXCEPT !.ctx = c] : c \in Ctxs}
  /\ idp = NoResponse
  /\ served = NoServed

\* getApiClient(ctx): const accessToken = resolveAccessToken(ctx)
ResolveCall ==
  /\ ~resolveCall.done
  /\ resolveCall' = [resolveCall EXCEPT
                       !.done = TRUE,
                       !.result = resolveAccessToken(resolveCall.ctx, cfg)]
  /\ UNCHANGED <<idp, served>>
  /\ UNCHANGED <<cfg, phase, discovery, discoveryGets, oauthMetadata,
                 wellKnown, routes, now, tokenVerifyCache, req>>

NextResolve == ResolveCall

SpecResolve == InitResolve /\ [][NextResolve]_vars

\* ------------------------------------------ the metadata builder, alone

\* Values an optional field of a discovery document is tried with: of the
\* shape buildOAuthMetadata expects ("well"), of another shape ("wrong"),
\* and the empty value of the expected shape ("empty").
OptionalValue(f, shape) ==
  CASE shape = "well" ->
         IF f \in OptionalStringFields THEN JsonString(<<"https://idp.example/", f>>)
         ELSE IF f \in BooleanFields THEN JsonBoolean(TRUE)
         ELSE JsonArray(<<"a", "b">>)
    [] shape = "wrong" ->
         IF f \in OptionalStringFields THEN JsonArray(<<"a", "b">>)
         ELSE JsonString(<<"a">>)
    [] OTHER ->
         IF f \in OptionalStringFields THEN JsonString(<<>>)
         ELSE IF f \in BooleanFields THEN JsonBoolean(FALSE)
         ELSE JsonArray(<<>>)

\* Document d with the optional fields F set to values of one shape.
DocWith(d, F, shape) ==
  [f \in DOMAIN d |-> IF f \in F THEN OptionalValue(f, shape) ELSE d[f]]

\* Documents with no optional field, with one, and with all of them.
DiscoveryDocs ==
  {DocWith(d, F, shape) :
     d \in Docs,
     F \in {{}, OptionalFields} \cup {{f} : f \in OptionalFields},
     shape \in {"well", "wrong", "empty"}}

RichDiscoveryResponses ==
  {[kind |-> "error", ok |-> FALSE, doc |-> NoDoc],
   [kind |-> "response", ok |-> FALSE, doc |-> NoDoc]}
    \cup {[kind |-> "response", ok |-> TRUE, doc |-> d] : d \in DiscoveryDocs}

\* An HTTP process is started and runs up to app.listen, the issuer
\* answering the discovery fetch with any of these documents.
InitDiscovery ==
  /\ cfg \in {c \in GatewayConfigs : c.transport = "http"}
  /\ phase = "start"
  /\ discovery = NoResponse
  /\ discoveryGets = 0
  /\ oauthMetadata = NoMetadata
  /\ wellKnown = FALSE
  /\ routes = NoRoutes
  /\ now = 0
  /\ tokenVerifyCache = EmptyCache
  /\ req = [r \in Requests |-> Idle]
  /\ resolveCall = NoCall
  /\ idp = NoResponse
  /\ served = NoServed

NextDiscovery ==
  \/ Main
  \/ \E resp \in RichDiscoveryResponses : DiscoveryDone(resp)
  \/ \E ok \in BOOLEAN : Listen(ok)

SpecDiscovery == InitDiscovery /\ [][NextDiscovery]_vars

\* ---------------------------------------------- the metadata, once served

\* A discovery document with the mandatory fields and nothing else.
PlainDoc ==
  [NoDoc EXCEPT !.issuer = <<"https://idp.example/oauth">>,
                !.authorization_endpoint = <<"https://idp.example/authorize">>,
                !.token_endpoint = <<"https://idp.example/token">>]

PlainResponse == [kind |-> "response", ok |-> TRUE, doc |-> PlainDoc]

\* The paths startHttpMode registers with (_req, res) => res.json(oauthMetadata).
WellKnownAliases ==
  {"/.well-known/openid-configuration",
   "/.well-known/oauth-authorization-server",
   "/mcp/.well-known/openid-configuration",
   "/mcp/.well-known/oauth-authorization-server",
   "/.well-known/openid-configuration/mcp",
   "/.well-known/oauth-authorization-server/mcp"}

\* res.json(md): JSON.stringify keeps the properties whose value is defined.
Serialize(md) ==
  [f \in {g \in DOMAIN md : md[g] # JsonUndefined} |-> md[f]]

\* WellKnownGet answering from the issuer's document as it is at the time
\* of the request.
WellKnownGet_Live(path) ==
  /\ phase = "listening"
  /\ served' =
       IF wellKnown
         THEN [path |-> path, status |-> 200,
               body |-> Serialize(buildOAuthMetadata(idp).md)]
         ELSE [path |-> path, status |-> 404, body |-> <<>>]
  /\ UNCHANGED <<cfg, phase, discovery, discoveryGets, oauthMetadata,
                 wellKnown, routes, now, tokenVerifyCache, req, resolveCall,
                 idp>>

\* GET of a well-known alias: the handler answers with the oauthMetadata
\* object it closes over; without the routes (auth mode none) Express
\* answers 404.
WellKnownGet(path) ==
  /\ phase = "listening"
  /\ served' =
       IF wellKnown
         THEN [path |-> path, status |-> 200,
               body |-> Serialize(oauthMetadata.md)]
         ELSE [path |-> path, status |-> 404, body |-> <<>>]
  /\ UNCHANGED <<cfg, phase, discovery, discoveryGets, oauthMetadata,
                 wellKnown, routes, now, tokenVerifyCache, req, resolveCall,
                 idp>>

\* What the identity provider changes its answer to.
ChangedResponses ==
  {PlainResponse,
   [kind |-> "response", ok |-> TRUE,
    doc |-> [PlainDoc EXCEPT
               !.token_endpoint = <<"https://idp.example/token/v2">>]],
   [kind |-> "response", ok |-> FALSE, doc |-> NoDoc]}

\* The identity provider changes what it answers a discovery GET with.
IdpChange(resp) ==
  /\ resp # idp
  /\ idp' = resp
  /\ UNCHANGED <<cfg, phase, discovery, discoveryGets, oauthMetadata,
                 wellKnown, routes, now, tokenVerifyCache, req, resolveCall,
                 served>>

\* A process is started with an identity provider that answers the discovery
\* fetch with what it serves at that time.
InitSnapshot ==
  /\ cfg \in GatewayConfigs
  /\ phase = "start"
  /\ discovery = NoResponse
  /\ discoveryGets = 0
  /\ oauthMetadata = NoMetadata
  /\ wellKnown = FALSE
  /\ routes = NoRoutes
  /\ now = 0
  /\ tokenVerifyCache = EmptyCache
  /\ req = [r \in Requests |-> Idle]
  /\ resolveCall = NoCall
  /\ idp \in DiscoveryResponses
  /\ served = NoServed

NextSnapshot ==
  \/ Main
  \/ DiscoveryDone(idp)
  \/ \E ok \in BOOLEAN : Listen(ok)
  \/ \E resp \in ChangedResponses : IdpChange(resp)
  \/ \E path \in WellKnownAliases : WellKnownGet(path)

SpecSnapshot == InitSnapshot /\ [][NextSnapshot]_vars

\* ------------------------------------------------- the verifier, on claims

\* A gateway in auth mode oauth or mixed that has come up and listens.
InitClaims ==
  /\ cfg \in {c \in GatewayConfigs :
                /\ c.transport = "http" /\ c.authMode \in {"oauth", "mixed"}
                /\ c.issuer # <<>> /\ c.legacyKey = JsUndefined}
  /\ phase = "listening"
  /\ discovery = PlainResponse
  /\ discoveryGets = 1
  /\ oauthMetadata = buildOAuthMetadata(PlainResponse)
  /\ wellKnown = TRUE
  /\ routes = RegisterRoutes(cfg.authMode)
  /\ now = 0
  /\ tokenVerifyCache = EmptyCache
  /\ req = [r \in Requests |-> Idle]
  /\ resolveCall = NoCall
  /\ idp = NoResponse
  /\ served = NoServed

\* Requests arrive with any of the tokens of DecodeTokens and are verified.
NextClaims ==
  \/ \E r \in Requests, m \in Methods, t \in DecodeTokens :
       Request(r, m, [scheme |-> "Bearer", cred |-> t])
  \/ \E r \in Requests, o \in ProbeOutcomes : ProbeDone(r, o)

SpecClaims == InitClaims /\ [][NextClaims]_vars

\* ------------------------------------------- clients that go away mid-flight

\* The listening gateway with clients that present one token and may
\* disconnect while it is being verified, up to the point where the
\* middleware has answered or has called next().
NextDisconnect ==
  \/ Tick
  \/ \E r \in Requests :
       Request(r, "POST", [scheme |-> "Bearer", cred |-> TokApp1])
  \/ \E r \in Requests : ClientDisconnect(r)
  \/ \E r \in Requests, o \in ProbeOutcomes : ProbeDone(r, o)

SpecDisconnect == InitClaims /\ [][NextDisconnect]_vars

\* Every probe settles: axios answers or rejects within PROBE_TIMEOUT_MS, and
\* the continuation of the await runs on the event loop.
FairSpecDisconnect ==
  SpecDisconnect /\ \A r \in Requests : WF_vars(\E o \in ProbeOutcomes : ProbeDone(r, o))

\* ------------------------------------------------------------------ claims

\* Request r has called verifyBearerToken.
Verified(r) == req[r].vCalled

\* C1 as stated: whenever verifyBearerToken is called twice for one token and
\* the second call starts less than TOKEN_VERIFY_CACHE_TTL_MS after the first,
\* at most one of the two issues a probe and the second is a cache hit.
C1_TwiceWithinTtlOneProbe ==
  \A r1, r2 \in Requests :
    ( /\ r1 < r2
      /\ Verified(r1) /\ Verified(r2)
      /\ req[r1].token = req[r2].token
      /\ req[r2].vStart - req[r1].vStart < TOKEN_VERIFY_CACHE_TTL_MS )
    => /\ ~(req[r1].vProbed /\ req[r2].vProbed)
       /\ req[r2].vResult = "hit"

\* C1 amended: once a call of verifyBearerToken(t) has got 200 from its probe
\* and stored its result, with no verification of t that started earlier
\* still in flight, every call for t that starts afterwards and less than
\* TOKEN_VERIFY_CACHE_TTL_MS after that call started is served from the
\* cache and issues no probe.
C1_SecondCallServedFromCache ==
  [][\A r1, r2 \in Requests :
       ( /\ req[r1].vResult = "ok"
         /\ ~req[r1].staleInFlight
         /\ ~Verified(r2) /\ Verified(r2)'
         /\ req'[r2].token = req[r1].token
         /\ req'[r2].vStart - req[r1].vStart < TOKEN_VERIFY_CACHE_TTL_MS )
       => /\ req'[r2].vResult = "hit"
          /\ ~req'[r2].vProbed]_vars

\* A second call within the TTL of a first, successful one has been served
\* from the cache.
C1_Witness ==
  \E r1, r2 \in Requests :
    /\ req[r1].vResult = "ok" /\ req[r1].vProbed
    /\ ~req[r1].staleInFlight
    /\ r1 < r2
    /\ req[r2].token = req[r1].token
    /\ req[r2].vResult = "hit" /\ ~req[r2].vProbed
    /\ req[r2].vStart > req[r1].vStart
    /\ req[r2].vStart - req[r1].vStart < TOKEN_VERIFY_CACHE_TTL_MS

\* Request r has been sent.
Sent(r) == req[r].pc # "idle"

\* The verification of request r has ended (it returned or threw).
VerifyEnded(r) == Verified(r) /\ req[r].pc # "verifying"

C3_OauthRejectedToken401 ==
  \A r \in Requests :
    ( /\ cfg.authMode = "oauth"
      /\ BearerFormatOk(req[r].header)
      /\ req[r].outcome.kind = "response"
      /\ req[r].outcome.status # 200 )
    => /\ req[r].status = 401
       /\ ~req[r].handled

\* The auth context of request r is the token with what verifyBearerToken
\* returns for it.
AuthIsVerifiedInfo(r) ==
  LET info == AuthInfoOf(req[r].token) IN
  /\ req[r].auth.set
  /\ req[r].auth.token = req[r].token
  /\ req[r].auth.clientId = info.clientId
  /\ req[r].auth.scopes = info.scopes
  /\ req[r].auth.expiresAt = info.expiresAt

C6_MixedInvalidToken401 ==
  \A r \in Requests :
    ( /\ cfg.authMode = "mixed"
      /\ HeaderPresent(req[r].header)
      /\ VerifyEnded(r)
      /\ req[r].vResult = "fail" )
    => /\ req[r].pc = "done"
       /\ req[r].status = 401
       /\ req[r].error = "invalid_token"
       /\ ~req[r].handled

C6_Witness ==
  \E r \in Requests :
    /\ cfg.authMode = "mixed"
    /\ req[r].outcome.kind = "response" /\ req[r].outcome.status = 401
    /\ req[r].status = 401

CarriesToken(ctx) ==
  /\ ctx.defined /\ ctx.hasAuthInfo
  /\ ctx.token.type = "string" /\ ctx.token.str # EmptyString

\* Legacy fallback is enabled and a non-empty legacy key is configured.
LegacyAvailable ==
  /\ cfg.allowLegacy
  /\ cfg.legacyKey.type = "string" /\ cfg.legacyKey.str # EmptyString

\* C8: resolveAccessToken(ctx) is ctx's token when ctx carries a non-empty
\* string token, else the legacy key when fallback is enabled and a
\* non-empty key is configured, else undefined; and the call leaves the
\* configuration, the cache and the requests as they were.
C8_ResolveDecisionTable ==
  [][(~resolveCall.done /\ resolveCall'.done)
       => /\ CarriesToken(resolveCall.ctx)
               => resolveCall'.result = resolveCall.ctx.token
          /\ (~CarriesToken(resolveCall.ctx) /\ LegacyAvailable)
               => resolveCall'.result = cfg.legacyKey
          /\ (~CarriesToken(resolveCall.ctx) /\ ~LegacyAvailable)
               => resolveCall'.result = JsUndefined
          /\ resolveCall'.ctx = resolveCall.ctx
          /\ UNCHANGED <<idp, served>>
  /\ UNCHANGED <<cfg, tokenVerifyCache, req, now>>]_vars

\* A ctx with a token has been resolved to that token although a legacy key
\* different from it was configured and enabled.
C8_Witness ==
  /\ resolveCall.done
  /\ CarriesToken(resolveCall.ctx)
  /\ LegacyAvailable
  /\ resolveCall.ctx.token # cfg.legacyKey
  /\ resolveCall.result = resolveCall.ctx.token
  /\ tokenVerifyCache # EmptyCache

\* The exp claim of request r's token had passed when its verification
\* started, and the verification was not served from the cache.
ExpiredAtStart(r) ==
  LET exp == parseJwtClaims(req[r].token).claims.exp IN
  /\ VerifyEnded(r)
  /\ req[r].vResult # "hit"
  /\ exp # <<>> /\ exp[1] * 1000 < req[r].vStart

Probe200(r) == req[r].outcome.kind = "response" /\ req[r].outcome.status = 200

BadDiscovery ==
  \/ discovery.kind = "error"
  \/ ~discovery.ok
  \/ ~Truthy(discovery.doc.issuer)
  \/ ~Truthy(discovery.doc.authorization_endpoint)
  \/ ~Truthy(discovery.doc.token_endpoint)

\* C10: buildOAuthMetadata returns no metadata object when the discovery
\* response is not OK or lacks a mandatory field, it fails instead (start-up
\* is aborted); and every metadata object it returns has issuer,
\* authorization_endpoint and token_endpoint.
C10_MetadataHasMandatoryFields ==
  /\ (discovery.kind # "none" /\ BadDiscovery)
       => oauthMetadata = NoMetadata /\ phase = "exited"
  /\ oauthMetadata.kind = "metadata"
       => /\ Truthy(oauthMetadata.md.issuer)
          /\ Truthy(oauthMetadata.md.authorization_endpoint)
          /\ Truthy(oauthMetadata.md.token_endpoint)
          /\ oauthMetadata.md.issuer = discovery.doc.issuer
          /\ oauthMetadata.md.authorization_endpoint
               = discovery.doc.authorization_endpoint
          /\ oauthMetadata.md.token_endpoint = discovery.doc.token_endpoint

\* An OK discovery document that lacks only token_endpoint has made
\* buildOAuthMetadata fail.
C10_Witness ==
  /\ discovery.kind = "response" /\ discovery.ok
  /\ Truthy(discovery.doc.issuer)
  /\ Truthy(discovery.doc.authorization_endpoint)
  /\ discovery.doc.token_endpoint = <<>>
  /\ oauthMetadata = NoMetadata
  /\ phase = "exited"

\* The discovery document carries the three mandatory fields and nothing
\* else, and buildOAuthMetadata has returned the metadata for it.
OnlyMandatoryBuilt ==
  /\ oauthMetadata.kind = "metadata"
  /\ \A f \in OptionalFields : discovery.doc[f] = JsonUndefined

\* C11 as stated: the metadata built from a document with only the three
\* mandatory fields has every optional field absent, except that
\* response_types_supported is ["code"] and code_challenge_methods_supported
\* is ["S256"].
C11_OnlyMandatoryOptionalAbsent ==
  OnlyMandatoryBuilt
  => \A f \in OptionalFields :
       oauthMetadata.md[f] =
         CASE f = "response_types_supported" -> JsonArray(<<"code">>)
           [] f = "code_challenge_methods_supported" -> JsonArray(<<"S256">>)
           [] OTHER -> JsonUndefined

\* C11 amended: the metadata built from a document with only the three
\* mandatory fields has every optional field absent, except that
\* scopes_supported is the configured scope list MCP_OIDC_SCOPES,
\* response_types_supported is ["code"], code_challenge_methods_supported is
\* ["S256"] and client_id_metadata_document_supported is false.
C11_OnlyMandatoryDefaults ==
  OnlyMandatoryBuilt
  => \A f \in OptionalFields :
       oauthMetadata.md[f] =
         CASE f = "scopes_supported" -> JsonArray(MCP_OIDC_SCOPES)
           [] f = "response_types_supported" -> JsonArray(<<"code">>)
           [] f = "code_challenge_methods_supported" -> JsonArray(<<"S256">>)
           [] f = "client_id_metadata_document_supported" -> JsonBoolean(FALSE)
           [] OTHER -> JsonUndefined

\* Metadata has been built from a document with only the mandatory fields.
C11_Witness ==
  /\ OnlyMandatoryBuilt
  /\ discovery.kind = "response" /\ discovery.ok
  /\ oauthMetadata.md.issuer = discovery.doc.issuer
  /\ oauthMetadata.md.registration_endpoint = JsonUndefined

\* The process runs the HTTP transport in auth mode oauth or mixed.
HttpOauthOrMixed ==
  cfg.transport = "http" /\ cfg.authMode \in {"oauth", "mixed"}

\* Start-up cannot go on: no issuer is configured, or the discovery fetch
\* has settled and buildOAuthMetadata failed on it.
StartupMustAbort ==
  \/ phase # "start" /\ cfg.issuer = <<>>
  \/ discovery.kind # "none" /\ buildOAuthMetadata(discovery).kind # "metadata"

\* C12: in HTTP mode with auth mode oauth or mixed, whenever the listener is
\* open an issuer is configured, the metadata has been built and the
\* well-known routes are registered; app.listen is only called with the
\* metadata and well-known routes in place; and when the issuer is missing
\* or the metadata cannot be built the process exits and never listens.
C12_NeverListensHalfConfigured ==
  /\ [](HttpOauthOrMixed =>
          /\ phase \in {"binding", "listening"} =>
               /\ cfg.issuer # <<>>
               /\ oauthMetadata.kind = "metadata"
               /\ oauthMetadata = buildOAuthMetadata(discovery)
               /\ wellKnown
          /\ StartupMustAbort => phase = "exited")
  /\ [][HttpOauthOrMixed =>
          /\ (phase # "listening" /\ phase' = "listening")
               => phase = "binding" /\ wellKnown /\ oauthMetadata.kind = "metadata"
          /\ phase = "exited" => phase' = "exited"]_vars

\* A server in auth mode mixed listens with its metadata, and a request has
\* been served by it.
C12_Witness ==
  /\ cfg.transport = "http" /\ cfg.authMode = "mixed"
  /\ phase = "listening"
  /\ oauthMetadata.kind = "metadata" /\ wellKnown
  /\ \E r \in Requests : req[r].pc = "done"

\* The middleware has answered request r with an authentication error.
AuthRejected(r) ==
  /\ req[r].mw \in {"authMiddleware", "mixedAuthMiddleware"}
  /\ req[r].error \in {"invalid_token", "server_error"}

\* C13: in auth mode oauth or mixed a request the middleware has answered
\* with an authentication error is never passed to mcpHandler, neither
\* before nor after the answer, and no outbound call is made for it; the
\* answer is final.
C13_RejectedNeverHandled ==
  /\ [](\A r \in Requests :
          (cfg.authMode \in {"oauth", "mixed"} /\ AuthRejected(r))
          => /\ ~req[r].handled
             /\ req[r].outbound = <<>>
             /\ req[r].pc = "done"
             /\ req[r].status \in {401, 500})
  /\ [][\A r \in Requests :
          (cfg.authMode \in {"oauth", "mixed"} /\ AuthRejected(r))
          => req'[r] = req[r]]_vars

\* One request has been rejected by the middleware while another, sent
\* before it, has been handled to the end with its outbound call.
C13_Witness ==
  \E r1, r2 \in Requests :
    /\ r1 < r2
    /\ cfg.authMode \in {"oauth", "mixed"}
    /\ AuthRejected(r2) /\ req[r2].vResult = "fail"
    /\ req[r1].handled /\ req[r1].outbound # <<>>

\* Requests r1 and r2 verified the same token, both missed the cache and
\* issued a probe, and both probes answered 200.
BothProbedOk(r1, r2) ==
  /\ r1 # r2
  /\ req[r1].token = req[r2].token
  /\ req[r1].vProbed /\ req[r2].vProbed
  /\ req[r1].vResult = "ok" /\ req[r2].vResult = "ok"

\* The tokens tokenVerifyCache holds an entry for.
CachedKeys == {t \in TokenStrings : tokenVerifyCache[t].present}

C15_HitIffStrictlyBeforeExpiry ==
  [][\A r \in Requests :
       (~Verified(r) /\ Verified(r)')
       => LET e == tokenVerifyCache[req'[r].token]
              fresh == e.present /\ now < e.expiresAt
          IN /\ req'[r].vResult = "hit" <=> fresh
             /\ fresh => ~req'[r].vProbed /\ req'[r].vInfo = e.authInfo
             /\ ~fresh => tokenVerifyCache' = tokenVerifyCache
             /\ (~fresh /\ (e.present \/ ~parseJwtClaims(req'[r].token).isNull))
                  => req'[r].vProbed /\ req'[r].pc = "verifying"]_vars

\* A verification has started at the very instant the entry of its token
\* expired, has missed the cache and waits for its probe, with the expired
\* entry still in the map.
C15_Witness ==
  \E r \in Requests :
    /\ req[r].pc = "verifying" /\ req[r].vProbed
    /\ tokenVerifyCache[req[r].token].present
    /\ tokenVerifyCache[req[r].token].expiresAt = req[r].vStart

\* C16: a verification served from the cache returns what the earlier
\* successful verification of that token returned when it created the
\* entry; for the token with claims {scope: "read write", client_id: "app1",
\* exp: 45} both return {clientId: "app1", scopes: ["read", "write"],
\* expiresAt: 45}.
C16_HitReturnsStoredResult ==
  \A r \in Requests :
    req[r].vResult = "hit"
    => /\ \E q \in Requests :
            /\ q < r
            /\ req[q].vResult = "ok"
            /\ req[q].token = req[r].token
            /\ req[q].vStart <= req[r].vStart
            /\ req[q].vInfo = req[r].vInfo
       /\ req[r].token = TokApp1
            => req[r].vInfo = [clientId |-> "app1", scopes |-> <<"read", "write">>,
                               expiresAt |-> <<45>>]
       /\ req[r].handled => /\ req[r].auth.clientId = req[r].vInfo.clientId
                            /\ req[r].auth.scopes = req[r].vInfo.scopes
                            /\ req[r].auth.expiresAt = req[r].vInfo.expiresAt

\* The token of app1 has been verified by a probe and then served from the
\* cache to a request that the mixed middleware admitted.
C16_Witness ==
  \E q, r \in Requests :
    /\ q < r
    /\ req[q].token = TokApp1 /\ req[r].token = TokApp1
    /\ req[q].vResult = "ok" /\ req[r].vResult = "hit"
    /\ req[r].mw = "mixedAuthMiddleware" /\ req[r].handled
    /\ req[r].auth.scopes = <<"read", "write">>

\* C17 as stated: an exception of the protocol handler while it serves a
\* request is answered with status 500 and body {error: "Internal server
\* error"}; the process goes on and no other request is touched.
C17_HandlerExceptionIs500 ==
  \A r \in Requests :
    req[r].thrown
    => /\ req[r].status = 500
       /\ req[r].error = "Internal server error"
       /\ phase = "listening"

\* C17 amended: an exception of the protocol handler is caught in mcpHandler;
\* when no response headers had gone out it is answered with status 500 and
\* body {error: "Internal server error"}, otherwise the response is left as
\* it was begun; in both cases the process keeps listening and the step
\* changes no other request and not the cache.
C17_HandlerExceptionContained ==
  /\ [](\A r \in Requests :
          req[r].thrown
          => /\ phase = "listening"
             /\ req[r].pc = "done"
             /\ ~req[r].headersSent
                  => req[r].status = 500 /\ req[r].error = "Internal server error"
             /\ req[r].headersSent
                  => req[r].status # 500 /\ req[r].error = "")
  /\ [][\A r \in Requests :
          (~req[r].thrown /\ req'[r].thrown)
          => /\ \A q \in Requests \ {r} : req'[q] = req[q]
             /\ UNCHANGED <<phase, tokenVerifyCache, routes>>]_vars

\* The handler has thrown for one request while another was in flight, and
\* that other request has since ended as its own steps decided.
C17_Witness ==
  \E r, q \in Requests :
    /\ r < q
    /\ req[r].thrown /\ ~req[r].headersSent /\ req[r].status = 500
    /\ req[r].vStart = req[q].vStart
    /\ req[q].vResult = "ok" /\ req[q].pc = "done" /\ req[q].status = 200
    /\ req[r].vResult = "ok"
    /\ phase = "listening"

\* The probe of request r got no response (network error or timeout).
ProbeUnreachable(r) == req[r].outcome.kind = "error"

\* C18: when the probe cannot reach the backend (network error, timeout) the
\* request is answered 401 and kept from mcpHandler, the verification has
\* issued its one probe and no other, and the process keeps serving.
C18_UnreachableProbeIs401 ==
  \A r \in Requests :
    ProbeUnreachable(r)
    => /\ req[r].status = 401
       /\ ~req[r].handled
       /\ req[r].probes = 1
       /\ phase = "listening"

\* HEADLESSHOST_API_KEY is set to a non-empty key.
ApiKeySet == cfg.legacyKey.type = "string" /\ cfg.legacyKey.str # EmptyString

\* C19: API key authentication is required for all operations: the server
\* runs (stdio connected, or HTTP listener open) only with
\* HEADLESSHOST_API_KEY set, and the client of every outbound call to the
\* Headlesshost API carries an Authorization credential.
C19_ApiKeyRequired ==
  /\ phase \in {"stdio", "listening"} => ApiKeySet
  /\ \A r \in Requests :
       req[r].outbound # <<>> => req[r].outbound[1] # JsUndefined

\* C20: no step removes a key from tokenVerifyCache: the set of cached keys
\* never shrinks, and an entry, expired or not, changes only when a
\* verification of its token succeeds and overwrites it; the map is free to
\* hold an entry for every token.
C20_CacheKeysNeverRemoved ==
  [][/\ CachedKeys \subseteq CachedKeys'
     /\ \A t \in TokenStrings :
          tokenVerifyCache'[t] # tokenVerifyCache[t]
          => /\ tokenVerifyCache'[t].present
             /\ \E r \in Requests :
                  /\ req[r].pc = "verifying" /\ req[r].token = t
                  /\ req'[r].vResult = "ok"
                  /\ tokenVerifyCache'[t].expiresAt
                       = req[r].vStart + TOKEN_VERIFY_CACHE_TTL_MS]_vars

\* The map holds an entry for every token, one of them expired and still
\* there after a later verification of another token was stored.
C20_Witness ==
  /\ CachedKeys = Tokens
  /\ \E t, u \in Tokens :
       /\ t # u
       /\ tokenVerifyCache[t].expiresAt <= now
       /\ tokenVerifyCache[u].expiresAt > now
       /\ tokenVerifyCache[u].expiresAt
            >= tokenVerifyCache[t].expiresAt + TOKEN_VERIFY_CACHE_TTL_MS

\* The token's second segment cannot be decoded: there is none, or it is
\* not JSON.
Undecodable(t) == t.parts < 2 \/ t.payload = "garbage"

\* The claims a decodable object payload of token t holds.
ClaimsIn(t) == IF Undecodable(t) THEN NoClaims ELSE t.claims

\* Claim value v is truthy: a non-empty string.
IsTruthyClaim(v) == v # <<>> /\ v # <<"">>

\* C21: what verifyBearerToken returns is derived from the token's claims
\* alone: clientId is the first truthy of client_id, azp, sub, email, else
\* "unknown"; scopes are the non-empty parts of a string scope claim cut at
\* blanks, else empty; expiresAt is exp when a number, else absent.  A token
\* whose payload cannot be decoded has empty claims, its verification goes
\* on to the probe, and the probe decides.
C21_IdentityFromClaims ==
  \A r \in Requests :
    LET t == req[r].token
        c == ClaimsIn(t)
        i == req[r].vInfo
    IN /\ req[r].vResult = "ok"
            => /\ IsTruthyClaim(c.client_id) => i.clientId = c.client_id[1]
               /\ (~IsTruthyClaim(c.client_id) /\ IsTruthyClaim(c.azp))
                    => i.clientId = c.azp[1]
               /\ (~IsTruthyClaim(c.client_id) /\ ~IsTruthyClaim(c.azp)
                     /\ IsTruthyClaim(c.sub))
                    => i.clientId = c.sub[1]
               /\ (~IsTruthyClaim(c.client_id) /\ ~IsTruthyClaim(c.azp)
                     /\ ~IsTruthyClaim(c.sub) /\ IsTruthyClaim(c.email))
                    => i.clientId = c.email[1]
               /\ (~IsTruthyClaim(c.client_id) /\ ~IsTruthyClaim(c.azp)
                     /\ ~IsTruthyClaim(c.sub) /\ ~IsTruthyClaim(c.email))
                    => i.clientId = "unknown"
               /\ c.scope = <<>> => i.scopes = <<>>
               /\ c.scope # <<>>
                    => i.scopes = SelectSeq(c.scope[1], LAMBDA x : x # "")
               /\ i.expiresAt = c.exp
       /\ (Verified(r) /\ Undecodable(t) /\ req[r].vResult # "hit")
            => /\ req[r].vProbed
               /\ VerifyEnded(r) => (req[r].vResult = "ok" <=> Probe200(r))
               /\ req[r].vResult = "ok"
                    => i = [clientId |-> "unknown", scopes |-> <<>>,
                            expiresAt |-> <<>>]

\* A token with empty client_id and azp has been verified as its sub, and a
\* token whose payload is not JSON has been verified by its probe.
C21_Witness ==
  /\ \E r \in Requests :
       /\ req[r].token = TokEmptyClientId /\ req[r].vResult = "ok"
       /\ req[r].vInfo.clientId = "sub1" /\ req[r].vInfo.scopes = <<>>
  /\ \E r \in Requests :
       /\ req[r].token = TokBadJson /\ req[r].vResult = "ok"
       /\ req[r].vInfo.clientId = "unknown"

\* The exp claim of token t has passed at time at.
ExpPassed(t, at) ==
  LET exp == ClaimsIn(t).exp IN exp # <<>> /\ exp[1] * 1000 < at

\* C22: every cache entry carries the time its verification call started
\* plus TOKEN_VERIFY_CACHE_TTL_MS as its expiry, whatever the exp claim of
\* the token; and a verification that finds an entry with the clock before
\* that expiry is a hit, also when the token's own exp has passed.
C22_CacheExpiryIgnoresTokenExp ==
  /\ [](\A t \in TokenStrings :
          tokenVerifyCache[t].present
          => \E r \in Requests :
               /\ req[r].token = t /\ req[r].vResult = "ok"
               /\ tokenVerifyCache[t].expiresAt
                    = req[r].vStart + TOKEN_VERIFY_CACHE_TTL_MS)
  /\ [][\A r \in Requests :
          ( /\ ~Verified(r) /\ Verified(r)'
            /\ tokenVerifyCache[req'[r].token].present
            /\ now < tokenVerifyCache[req'[r].token].expiresAt )
          => /\ req'[r].vResult = "hit"
             /\ req'[r].vInfo = tokenVerifyCache[req'[r].token].authInfo
             /\ tokenVerifyCache' = tokenVerifyCache]_vars

\* A token has been served from the cache after its own exp had passed,
\* from an entry stored before the exp passed.
C22_Witness ==
  \E r \in Requests :
    /\ req[r].vResult = "hit"
    /\ ExpPassed(req[r].token, req[r].vStart)
    /\ tokenVerifyCache[req[r].token].expiresAt > req[r].vStart
    /\ \E q \in Requests :
         /\ req[q].vResult = "ok" /\ req[q].token = req[r].token
         /\ ~ExpPassed(req[q].token, req[q].vStart)

\* The verification of request r goes on although its client has gone away.
Orphaned(r) == req[r].pc = "verifying" /\ req[r].disconnected

\* The entry verifyBearerToken stores for request r.
EntryOf(r) ==
  [present |-> TRUE,
   expiresAt |-> req[r].vStart + TOKEN_VERIFY_CACHE_TTL_MS,
   authInfo |-> AuthInfoOf(req[r].token)]

\* A verification whose client goes away is not aborted: it ends with the
\* outcome of its probe only, the probe settles, and on 200 the result is
\* stored in tokenVerifyCache in the step that receives it.
NoCancellation ==
  /\ [][\A r \in Requests :
          (Orphaned(r) /\ ~Orphaned(r)')
          => /\ req'[r].outcome \in ProbeOutcomes
             /\ req'[r].vResult = (IF ProbeAccepted(req'[r].outcome) THEN "ok" ELSE "fail")
             /\ ProbeAccepted(req'[r].outcome)
                  => tokenVerifyCache'[req[r].token] = EntryOf(r)]_vars
  /\ \A r \in Requests : Orphaned(r) ~> ~Orphaned(r)

\* C23 as stated: there is no cancellation; when the client disconnects
\* while its token is being verified the probe completes, and when it
\* returns 200 its result is written to tokenVerifyCache, so that a request
\* with the same token at any later time within the TTL is a cache hit.
C23_OrphanedResultServesLaterRequests ==
  /\ NoCancellation
  /\ [](\A r \in Requests :
          ( /\ req[r].disconnected /\ req[r].vResult = "ok"
            /\ now < req[r].vStart + TOKEN_VERIFY_CACHE_TTL_MS )
          => CacheHit(tokenVerifyCache, req[r].token, now))

\* C23 amended: as stated, the later request being a cache hit when no
\* verification of the same token that started earlier was still in flight
\* at the time the result was written.
C23_OrphanedResultCached ==
  /\ NoCancellation
  /\ [](\A r \in Requests :
          ( /\ req[r].disconnected /\ req[r].vResult = "ok"
            /\ ~req[r].staleInFlight
            /\ now < req[r].vStart + TOKEN_VERIFY_CACHE_TTL_MS )
          => CacheHit(tokenVerifyCache, req[r].token, now))

\* A client went away during verification, the probe returned 200, and a
\* later request with the same token was served from the cache.
C23_Witness ==
  \E r, q \in Requests :
    /\ req[r].disconnected /\ req[r].vResult = "ok" /\ req[r].vProbed
    /\ ~req[r].staleInFlight
    /\ req[q].token = req[r].token /\ req[q].vResult = "hit"
    /\ req[q].vStart > req[r].vStart

\* C24: at most one GET to the issuer's discovery document is issued over the
\* life of the process, none in stdio mode or auth mode none; it is issued
\* at start-up and never again, the metadata built from its answer never
\* changes, and every well-known alias answers every request with that
\* metadata, whatever the identity provider serves by then.
C24_MetadataIsStartupSnapshot ==
  /\ [](/\ discoveryGets <= 1
        /\ (cfg.transport # "http" \/ cfg.authMode = "none") => discoveryGets = 0
        /\ served.status = 200
             => /\ oauthMetadata = buildOAuthMetadata(discovery)
                /\ served.body = Serialize(oauthMetadata.md))
  /\ [][/\ discoveryGets' # discoveryGets => phase = "start"
        /\ oauthMetadata # NoMetadata => oauthMetadata' = oauthMetadata
        /\ discovery # NoResponse => discovery' = discovery
        /\ \A path \in WellKnownAliases :
             (phase = "listening" /\ wellKnown /\ served'.path = path
                /\ served' # served)
             => served'.status = 200]_vars

\* An alias has answered with the snapshot after the identity provider
\* changed its document to one that would give other metadata.
C24_Witness ==
  /\ served.status = 200
  /\ discoveryGets = 1
  /\ idp # discovery
  /\ buildOAuthMetadata(idp).kind = "metadata"
  /\ buildOAuthMetadata(idp) # oauthMetadata

\* The handler of request r has resolved the credential of its outbound calls.
Resolved(r) == req[r].outbound # <<>>

\* C25: in auth mode none every request reaches the handler with an empty
\* auth context, and the credential of its outbound calls is the legacy key
\* when the fallback is enabled and a key is configured, and none otherwise,
\* whether or not the request carried an Authorization header.
C25_NoneModeCredentialIgnoresHeaders ==
  (cfg.transport = "http" /\ cfg.authMode = "none")
  => \A r \in Requests :
       /\ req[r].pc # "idle" => req[r].handled /\ req[r].auth = NoAuth
       /\ Resolved(r)
            => req[r].outbound
                 = <<IF LegacyAvailable THEN cfg.legacyKey ELSE JsUndefined>>

\* In auth mode none a request with an Authorization header and one without
\* have been handled with the legacy key as their credential.
C25_Witness ==
  /\ cfg.authMode = "none" /\ LegacyAvailable
  /\ \E r, q \in Requests :
       /\ HeaderPresent(req[r].header) /\ ~HeaderPresent(req[q].header)
       /\ req[r].outbound = <<cfg.legacyKey>>
       /\ req[q].outbound = <<cfg.legacyKey>>

\* Request r came with an Authorization header through the oauth or the
\* mixed middleware and was admitted to the handler.
AdmittedWithHeader(r) ==
  /\ req[r].mw \in {"authMiddleware", "mixedAuthMiddleware"}
  /\ HeaderPresent(req[r].header)
  /\ req[r].handled

\* C26: a request that presented an Authorization header and was admitted
\* to the handler in oauth or mixed mode carries the token it presented,
\* verified by its own call of verifyBearerToken, and the credential of its
\* outbound calls is that token: not the legacy key, and not the token of
\* another request.
C26_CredentialIsOwnToken ==
  \A r \in Requests :
    AdmittedWithHeader(r)
    => /\ req[r].token = req[r].header.cred
       /\ req[r].vResult \in {"ok", "hit"}
       /\ req[r].auth.set /\ req[r].auth.token = req[r].token
       /\ Resolved(r)
            => /\ req[r].outbound = <<JsString(req[r].token)>>
               /\ req[r].outbound # <<cfg.legacyKey>>
               /\ \A q \in Requests \ {r} :
                    req[q].header.cred # req[r].header.cred
                    => req[r].outbound # <<JsString(req[q].header.cred)>>

\* With the legacy key configured, a request was handled with its own token
\* as credential while a request with another token was being handled.
C26_Witness ==
  /\ LegacyAvailable
  /\ \E r, q \in Requests :
       /\ AdmittedWithHeader(r) /\ AdmittedWithHeader(q)
       /\ req[r].token # req[q].token
       /\ r < q
       /\ req[q].pc = "handling"
       /\ req[r].outbound = <<JsString(req[r].token)>>

\* C27: in HTTP mode with any MCP_AUTH_MODE other than none, a request
\* reaches mcpHandler only if its bearer token was verified successfully, or
\* the mode is exactly mixed and the request carried no Authorization header.
C27_GatingNeverFailsOpen ==
  (cfg.transport = "http" /\ cfg.authMode # "none")
  => \A r \in Requests :
       req[r].handled
       => \/ req[r].vResult \in {"ok", "hit"}
          \/ cfg.authMode = "mixed" /\ ~HeaderPresent(req[r].header)

\* The verification of request r fails in this step.
FailsNow(r) == req[r].vResult # "fail" /\ req'[r].vResult = "fail"

\* C28 as stated: a verifyBearerToken call that fails leaves tokenVerifyCache
\* as it was, and a verification of the same token after the failure issues
\* a new probe, i.e. finds no unexpired entry.
C28_FailureLeavesCacheNextProbes ==
  [][\A r \in Requests :
       FailsNow(r)
       => /\ tokenVerifyCache' = tokenVerifyCache
          /\ ~CacheHit(tokenVerifyCache', req'[r].token, now')]_vars

\* A verification of token t has returned 200 and its entry, if still
\* stored, is unexpired at time at.
SucceededWithin(t, at) ==
  \E q \in Requests :
    /\ req[q].token = t /\ req[q].vResult = "ok"
    /\ at < req[q].vStart + TOKEN_VERIFY_CACHE_TTL_MS

\* C28 amended: a verifyBearerToken call that fails adds, changes and
\* removes no entry of tokenVerifyCache; failures are not cached, so a
\* verification of the same token after the failure issues a new probe,
\* unless a verification of that token that overlapped the failed call
\* returned 200 and its entry has not expired.
C28_FailureLeavesCacheUnchanged ==
  [][/\ \A r \in Requests :
          FailsNow(r)
          => /\ tokenVerifyCache' = tokenVerifyCache
             /\ ~SucceededWithin(req'[r].token, now)
                  => ~CacheHit(tokenVerifyCache', req'[r].token, now')
     /\ \A r, n \in Requests :
          ( /\ req[r].vResult = "fail"
            /\ ~Verified(n) /\ Verified(n)'
            /\ req'[n].token = req[r].token
            /\ ~SucceededWithin(req[r].token, now) )
          => req'[n].vProbed /\ req'[n].pc = "verifying"]_vars

\* A verification failed with its probe sent, and a request with the same
\* token that came after the failure was verified with a new probe.
C28_Witness ==
  \E r, n \in Requests :
    /\ req[r].vResult = "fail" /\ req[r].vProbed
    /\ req[n].token = req[r].token /\ req[n].vProbed
    /\ req[n].vStart > req[r].vStart + PROBE_TIMEOUT_MS

\* The cache entry of token t is written in this step.
Stored(t) == tokenVerifyCache'[t] # tokenVerifyCache[t]

AcceptedNow(r) ==
  /\ ~req[r].handled
  /\ req'[r].handled /\ req'[r].auth.set

====
